---- MODULE Spec2Model ----
(***************************************************************************)
(* anigo: looped image generation with a randomly created CPPN.            *)
(*                                                                         *)
(* Two programs are modelled: the sequential renderer (src/main.go) and    *)
(* the parallel renderer (src/unnamed/part_001), which forks four          *)
(* goroutines per frame and joins them on a sync.WaitGroup.  The network   *)
(* is modelled by the shapes of its layers; the colour a pixel receives is *)
(* the (uninterpreted) response of the immutable network to the feature    *)
(* vector of that pixel.                                                   *)
(***************************************************************************)
EXTENDS Integers, Sequences, FiniteSets, TLC

VARIABLES
    version,   \* "par" (part_001), "seq" (main.go) or "net" (library harness)
    width,     \* -width
    height,    \* -height
    depth,     \* -depth
    size,      \* -size
    gray,      \* -gray
    param,     \* *CPPNParam
    cppn,      \* *CPPN (its layers), <<>> before construction
    pc,        \* position of main
    theta,     \* loop variable of the frame loop
    k,         \* which of the four go statements comes next
    cur,       \* (x, y) of the sequential pixel loops
    wg,        \* sync.WaitGroup counter
    tasks,     \* live drawPart goroutines
    heap,      \* the *image.Paletted objects allocated so far
    frame,     \* the frame pointer of the current iteration
    Image,     \* img.Image
    Delay,     \* img.Delay
    inLen,     \* harness: length of the vector given to FeedForward
    result     \* harness: outcome of the last FeedForward call

vars == <<version, width, height, depth, size, gray, param, cppn, pc, theta,
          k, cur, wg, tasks, heap, frame, Image, Delay, inLen, result>>

(* ------------------------------ bounds ------------------------------- *)
MaxW == 3
MaxH == 2
MaxFairW == 2
MaxFairH == 1
MaxIn == 3
MaxLayers == 2
MaxNeurons == 2
MaxOut == 3

(* ------------------------- program constants ------------------------- *)
NumFrames == 60
SeqStep == 6
SeqEnd == 360
NumInputs == 5
DefaultDepth == 12
DefaultSize == 24
SeqDepth == 8
SeqSize == 16
NumParts == 4

None == [none |-> TRUE]
End == <<-1, -1>>

(* ------------------------------ network ------------------------------ *)
\* NewLayer(r, c, activation): an r x c weight matrix and an activation.
NewLayer(r, c, activation) == [r |-> r, c |-> c, act |-> activation]

CPPNParam(ni, nl, nn, no) ==
    [NumInputs |-> ni, NumHiddenLayers |-> nl,
     NumHiddenNeurons |-> nn, NumOutputs |-> no]

RECURSIVE HiddenLoop(_, _, _)
\* for i := 1; i < param.NumHiddenLayers; i++ { layers = append(...) }
HiddenLoop(layers, i, p) ==
    IF i < p.NumHiddenLayers
    THEN HiddenLoop(Append(layers,
                           NewLayer(p.NumHiddenNeurons + 1,
                                    p.NumHiddenNeurons, "tanh")),
                    i + 1, p)
    ELSE layers

RECURSIVE HiddenLoopFromZero(_, _, _)
HiddenLoopFromZero(layers, i, p) ==
    IF i < p.NumHiddenLayers + 1
    THEN HiddenLoopFromZero(Append(layers,
                           NewLayer(p.NumHiddenNeurons + 1,
                                    p.NumHiddenNeurons, "tanh")),
                    i + 1, p)
    ELSE layers

\* NewCPPN with the hidden loop starting at i = 0.
NewCPPNExtraLayer(p) ==
    Append(HiddenLoopFromZero(
               <<NewLayer(p.NumInputs + 1, p.NumHiddenNeurons, "tanh")>>, 1, p),
           NewLayer(p.NumHiddenNeurons + 1, p.NumOutputs, "sigmoid"))

NewCPPN(p) ==
    Append(HiddenLoop(
               <<NewLayer(p.NumInputs + 1, p.NumHiddenNeurons, "tanh")>>, 1, p),
           NewLayer(p.NumHiddenNeurons + 1, p.NumOutputs, "sigmoid"))

\* Layer.Activate on a signal of length n: the bias-augmented vector has
\* length n + 1 and MulVec needs that to be the row count of the weights;
\* the activated vector has one entry per column.
ActivateOk(layer, n) == layer.r = n + 1
ActivateLen(layer, n) == layer.c

RECURSIVE Pipe(_, _, _)
\* for _, layer := range c.Layers { signalVec = layer.Activate(signalVec) }
Pipe(layers, i, n) ==
    IF i > Len(layers)
    THEN [status |-> "ok", err |-> "", activated |-> i - 1, len |-> n]
    ELSE IF ~ActivateOk(layers[i], n)
         THEN [status |-> "panic", err |-> "matrix: dimension mismatch",
               activated |-> i, len |-> n]
         ELSE Pipe(layers, i + 1, ActivateLen(layers[i], n))

\* FeedForward without the length check.
FeedForwardUnchecked(p, layers, n) == Pipe(layers, 1, n)

\* CPPN.FeedForward on an input slice of length n.
FeedForward(p, layers, n) ==
    IF n # p.NumInputs
    THEN [status |-> "panic", err |-> "invalid number of inputs",
          activated |-> 0, len |-> n]
    ELSE Pipe(layers, 1, n)

(* ------------------------------ frames ------------------------------- *)
Grid(w, h) == (0 .. w - 1) \X (0 .. h - 1)

Blank == [in |-> <<>>, ch |-> 0]

\* image.NewPaletted(image.Rect(0, 0, width, height), colors): every pixel
\* is palette index 0; writers records the goroutines that Set each pixel.
NewPaletted(w, h) ==
    [w |-> w, h |-> h,
     pix |-> [p \in Grid(w, h) |-> Blank],
     writers |-> [p \in Grid(w, h) |-> <<>>]]

\* The phase features z1, z2 of the two programs.
Z1(v, th) == IF v = "par" THEN <<"cos", th>> ELSE <<"sin", th>>
Z2(v, th) == IF v = "par" THEN <<"sin", th>> ELSE <<"cos", th>>

\* inputs := []float64{xs, ys, r, z1, z2}
Inputs(v, w, h, x, y, th) ==
    <<x, y,
      (x - w \div 2) * (x - w \div 2) + (y - h \div 2) * (y - h \div 2),
      Z1(v, th), Z2(v, th)>>

\* Number of outputs the set closure reads.
Channels(v, g) == IF v = "par" /\ g THEN 1 ELSE 3

\* The colour drawPixel sets, or None when FeedForward or the indexing
\* of output panics.
Color(v, g, p, layers, w, h, x, y, th) ==
    LET in == Inputs(v, w, h, x, y, th)
        out == FeedForward(p, layers, Len(in))
    IN IF out.status = "panic" \/ out.len < Channels(v, g)
       THEN None
       ELSE [in |-> in, ch |-> Channels(v, g)]

\* frame.Set(x, y, c): ignored outside the frame's rectangle.
SetPixel(f, x, y, c, who) ==
    IF <<x, y>> \in Grid(f.w, f.h)
    THEN [f EXCEPT !.pix[<<x, y>>] = c,
                   !.writers[<<x, y>>] = Append(@, who)]
    ELSE f

\* The cell after (x, y) in the loops
\*   for y < y1 { for x := x0; x < x1 { ... } }, or End.
NextCell(x0, x1, y1, x, y) ==
    IF x + 1 < x1 THEN <<x + 1, y>>
    ELSE IF y + 1 < y1 THEN <<x0, y + 1>>
    ELSE End

\* The first cell of the loops over [x0, x1) x [y0, y1), or End.
FirstCell(x0, x1, y0, y1) ==
    IF x0 < x1 /\ y0 < y1 THEN <<x0, y0>> ELSE End

\* Rounds the split point up instead of down.
PartRectRoundUp(i, w, h) ==
    CASE i = 1 -> [x0 |-> 0, x1 |-> (w + 1) \div 2, y0 |-> 0, y1 |-> h \div 2]
      [] i = 2 -> [x0 |-> w \div 2, x1 |-> w, y0 |-> 0, y1 |-> h \div 2]
      [] i = 3 -> [x0 |-> 0, x1 |-> (w + 1) \div 2, y0 |-> h \div 2, y1 |-> h]
      [] i = 4 -> [x0 |-> w \div 2, x1 |-> w, y0 |-> h \div 2, y1 |-> h]

\* Starts the right half one column late.
PartRectGap(i, w, h) ==
    CASE i = 1 -> [x0 |-> 0, x1 |-> w \div 2, y0 |-> 0, y1 |-> h \div 2]
      [] i = 2 -> [x0 |-> w \div 2 + 1, x1 |-> w, y0 |-> 0, y1 |-> h \div 2]
      [] i = 3 -> [x0 |-> 0, x1 |-> w \div 2, y0 |-> h \div 2, y1 |-> h]
      [] i = 4 -> [x0 |-> w \div 2 + 1, x1 |-> w, y0 |-> h \div 2, y1 |-> h]

\* The rectangle of the i-th go drawPart(...) statement.
PartRect(i, w, h) ==
    CASE i = 1 -> [x0 |-> 0, x1 |-> w \div 2, y0 |-> 0, y1 |-> h \div 2]
      [] i = 2 -> [x0 |-> w \div 2, x1 |-> w, y0 |-> 0, y1 |-> h \div 2]
      [] i = 3 -> [x0 |-> 0, x1 |-> w \div 2, y0 |-> h \div 2, y1 |-> h]
      [] i = 4 -> [x0 |-> w \div 2, x1 |-> w, y0 |-> h \div 2, y1 |-> h]

(* -------------------------------- main ------------------------------- *)
Rest ==
    /\ param = None /\ cppn = <<>>
    /\ theta = 0 /\ k = 1 /\ cur = End /\ wg = 0 /\ tasks = {}
    /\ heap = <<>> /\ frame = 0 /\ Image = <<>> /\ Delay = <<>>
    /\ inLen = 0 /\ result = None

\* The state after flag.Parse(): the options of a run.
Options(maxw, maxh) ==
    /\ version \in {"par", "seq"}
    /\ width \in 0 .. maxw
    /\ height \in 0 .. maxh
    /\ IF version = "par"
       THEN depth = DefaultDepth /\ size = DefaultSize /\ gray \in BOOLEAN
       ELSE depth = SeqDepth /\ size = SeqSize /\ gray = FALSE
    /\ pc = "start"
    /\ Rest

Init == Options(MaxW, MaxH)

InitFair == Options(MaxFairW, MaxFairH)

\* main has returned or panicked at the hand-over.
Finished == pc \in {"done", "openFailed"}

Running == pc # "panic" /\ ~Finished

\* rand.Seed ... cppn := NewCPPN(param)
Construct ==
    /\ pc = "start"
    /\ param' = CPPNParam(NumInputs, depth, size, Channels(version, gray))
    /\ cppn' = NewCPPN(param')
    /\ theta' = 0
    /\ pc' = "loop"
    /\ UNCHANGED <<version, width, height, depth, size, gray, k, cur, wg,
                   tasks, heap, frame, Image, Delay, inLen, result>>

\* theta < 60 (part_001), theta < 360 (main.go)
LoopCondOffByOne(v, th) == IF v = "par" THEN th <= NumFrames ELSE th <= SeqEnd

LoopCond(v, th) == IF v = "par" THEN th < NumFrames ELSE th < SeqEnd

LoopTest ==
    /\ pc = "loop"
    /\ pc' = IF LoopCond(version, theta) THEN "new" ELSE "encode"
    /\ UNCHANGED <<version, width, height, depth, size, gray, param, cppn,
                   theta, k, cur, wg, tasks, heap, frame, Image, Delay,
                   inLen, result>>

\* frame := image.NewPaletted(...)
NewFrame ==
    /\ pc = "new"
    /\ heap' = Append(heap, NewPaletted(width, height))
    /\ frame' = Len(heap) + 1
    /\ k' = 1
    /\ IF version = "par"
       THEN pc' = "add" /\ cur' = End
       ELSE /\ cur' = FirstCell(0, width, 0, height)
            /\ pc' = IF cur' = End THEN "appendImage" ELSE "scan"
    /\ UNCHANGED <<version, width, height, depth, size, gray, param, cppn,
                   theta, wg, tasks, Image, Delay, inLen, result>>

\* main.go: one iteration of the inner pixel loop.
SeqPixel ==
    /\ pc = "scan"
    /\ LET c == Color(version, gray, param, cppn, width, height,
                      cur[1], cur[2], theta)
       IN IF c = None
          THEN pc' = "panic" /\ UNCHANGED <<heap, cur>>
          ELSE /\ heap' = [heap EXCEPT
                             ![frame] = SetPixel(@, cur[1], cur[2], c, 0)]
               /\ cur' = NextCell(0, width, height, cur[1], cur[2])
               /\ pc' = IF cur' = End THEN "appendImage" ELSE "scan"
    /\ UNCHANGED <<version, width, height, depth, size, gray, param, cppn,
                   theta, k, wg, tasks, frame, Image, Delay, inLen, result>>

\* wg.Add(1)
WgAdd ==
    /\ pc = "add"
    /\ wg' = wg + 1
    /\ pc' = "go"
    /\ UNCHANGED <<version, width, height, depth, size, gray, param, cppn,
                   theta, k, cur, tasks, heap, frame, Image, Delay, inLen,
                   result>>

\* The goroutine a go drawPart(frame, x0, x1, y0, y1, theta) statement starts.
NewTask(i, f, w, h, th) ==
    LET r == PartRect(i, w, h)
    IN [part |-> i, frame |-> f, theta |-> th,
        x0 |-> r.x0, x1 |-> r.x1, y0 |-> r.y0, y1 |-> r.y1,
        at |-> FirstCell(r.x0, r.x1, r.y0, r.y1)]

\* go drawPart(...)
GoDrawPart ==
    /\ pc = "go"
    /\ tasks' = tasks \cup {NewTask(k, frame, width, height, theta)}
    /\ k' = k + 1
    /\ pc' = IF k = NumParts THEN "wait" ELSE "add"
    /\ UNCHANGED <<version, width, height, depth, size, gray, param, cppn,
                   theta, cur, wg, heap, frame, Image, Delay, inLen, result>>

\* drawPart: one drawPixel(frame, x, y, theta) of goroutine t.
TaskDraw(t) ==
    /\ Running
    /\ t.at # End
    /\ LET c == Color(version, gray, param, cppn, width, height,
                      t.at[1], t.at[2], t.theta)
       IN IF c = None
          THEN pc' = "panic" /\ UNCHANGED <<heap, tasks>>
          ELSE /\ heap' = [heap EXCEPT
                             ![t.frame] = SetPixel(@, t.at[1], t.at[2], c,
                                                   t.part)]
               /\ tasks' = (tasks \ {t}) \cup
                     {[t EXCEPT !.at = NextCell(t.x0, t.x1, t.y1,
                                                t.at[1], t.at[2])]}
               /\ pc' = pc
    /\ UNCHANGED <<version, width, height, depth, size, gray, param, cppn,
                   theta, k, cur, wg, frame, Image, Delay, inLen, result>>

\* A drawPart that returns without wg.Done().
TaskDoneNoDone(t) ==
    /\ Running
    /\ t.at = End
    /\ tasks' = tasks \ {t}
    /\ UNCHANGED <<version, width, height, depth, size, gray, param, cppn,
                   theta, k, cur, wg, pc, heap, frame, Image, Delay, inLen,
                   result>>

\* drawPart: the deferred wg.Done() as goroutine t returns.
TaskDone(t) ==
    /\ Running
    /\ t.at = End
    /\ tasks' = tasks \ {t}
    /\ wg' = wg - 1
    /\ pc' = IF wg - 1 < 0 THEN "panic" ELSE pc
    /\ UNCHANGED <<version, width, height, depth, size, gray, param, cppn,
                   theta, k, cur, heap, frame, Image, Delay, inLen, result>>

\* wg.Wait() returns when the counter is zero.
WaitReturnsAlways(c) == TRUE

WaitReturnsEarly(c) == c <= 1

WaitReturns(c) == c = 0

WgWait ==
    /\ pc = "wait"
    /\ WaitReturns(wg)
    /\ pc' = "appendImage"
    /\ UNCHANGED <<version, width, height, depth, size, gray, param, cppn,
                   theta, k, cur, wg, tasks, heap, frame, Image, Delay,
                   inLen, result>>

\* img.Image = append(img.Image, frame)
AppendImage ==
    /\ pc = "appendImage"
    /\ Image' = Append(Image, frame)
    /\ pc' = "appendDelay"
    /\ UNCHANGED <<version, width, height, depth, size, gray, param, cppn,
                   theta, k, cur, wg, tasks, heap, frame, Delay, inLen,
                   result>>

\* img.Delay = append(img.Delay, 0)
AppendDelay ==
    /\ pc = "appendDelay"
    /\ Delay' = Append(Delay, 0)
    /\ pc' = "incr"
    /\ UNCHANGED <<version, width, height, depth, size, gray, param, cppn,
                   theta, k, cur, wg, tasks, heap, frame, Image, inLen,
                   result>>

\* theta++ (part_001), theta += 6 (main.go)
Incr ==
    /\ pc = "incr"
    /\ theta' = IF version = "par" THEN theta + 1 ELSE theta + SeqStep
    /\ pc' = "loop"
    /\ UNCHANGED <<version, width, height, depth, size, gray, param, cppn,
                   k, cur, wg, tasks, heap, frame, Image, Delay, inLen,
                   result>>

\* The animation is handed to the external encoder: os.OpenFile either
\* succeeds and gif.EncodeAll(f, img) runs, or fails and main panics.
Encode ==
    /\ pc = "encode"
    /\ pc' \in {"done", "openFailed"}
    /\ UNCHANGED <<version, width, height, depth, size, gray, param, cppn,
                   theta, k, cur, wg, tasks, heap, frame, Image, Delay,
                   inLen, result>>

MainNext ==
    \/ Construct
    \/ LoopTest
    \/ NewFrame
    \/ SeqPixel
    \/ WgAdd
    \/ GoDrawPart
    \/ WgWait
    \/ AppendImage
    \/ AppendDelay
    \/ Incr
    \/ Encode

TaskNext ==
    \/ \E t \in tasks : TaskDraw(t)
    \/ \E t \in tasks : TaskDone(t)

Next == MainNext \/ TaskNext

Spec == Init /\ [][Next]_vars

\* The Go scheduler runs every runnable goroutine eventually.
FairSpec ==
    InitFair /\ [][Next]_vars /\ WF_vars(MainNext) /\ WF_vars(TaskNext)

(* ----------------------- the network on its own ---------------------- *)
\* NewCPPN and FeedForward applied to arbitrary parameters and input lengths.
InitNet ==
    /\ version = "net"
    /\ width = 0 /\ height = 0 /\ depth = 0 /\ size = 0 /\ gray = FALSE
    /\ pc = "net"
    /\ theta = 0 /\ k = 1 /\ cur = End /\ wg = 0 /\ tasks = {}
    /\ heap = <<>> /\ frame = 0 /\ Image = <<>> /\ Delay = <<>>
    /\ inLen = 0 /\ result = None
    /\ cppn = <<>>
    /\ \E ni \in 1 .. MaxIn, nl \in 0 .. MaxLayers,
          nn \in 1 .. MaxNeurons, no \in 1 .. MaxOut :
           param = CPPNParam(ni, nl, nn, no)

NetConstruct ==
    /\ pc = "net"
    /\ cppn = <<>>
    /\ cppn' = NewCPPN(param)
    /\ UNCHANGED <<version, width, height, depth, size, gray, param, pc,
                   theta, k, cur, wg, tasks, heap, frame, Image, Delay,
                   inLen, result>>

NetFeedForward ==
    /\ pc = "net"
    /\ cppn # <<>>
    /\ \E n \in 0 .. MaxIn + 1 :
           /\ inLen' = n
           /\ result' = FeedForward(param, cppn, n)
    /\ UNCHANGED <<version, width, height, depth, size, gray, param, cppn,
                   pc, theta, k, cur, wg, tasks, heap, frame, Image, Delay>>

NextNet == NetConstruct \/ NetFeedForward

SpecNet == InitNet /\ [][NextNet]_vars


(* --------------------------- sequential scan ------------------------- *)
RECURSIVE Scan(_, _, _)
\* main.go's pixel loops run to completion on frame f from cell c, with
\* the pixel function of the running program.
Scan(f, c, th) ==
    IF c = End
    THEN f
    ELSE Scan(SetPixel(f, c[1], c[2],
                       Color(version, gray, param, cppn, width, height,
                             c[1], c[2], th), 0),
              NextCell(0, width, height, c[1], c[2]), th)

\* The pixels of the frame one row-major scan renders for sample th.
SequentialFrame(th) ==
    Scan(NewPaletted(width, height), FirstCell(0, width, 0, height), th).pix

(* ------------------------------- phase ------------------------------- *)
\* 3.14 <= math.Pi <= 3.15, in hundredths.
PiScale == 100
PiLo == 314
PiHi == 315
PhaseDiv == 3

\* Whether the phase angle at theta = th can be a whole number n of turns.
\* part_001: th / (Pi * 3.0) = 2 * Pi * n, i.e. th = 2 * 3 * Pi^2 * n;
\* main.go: th = 2 * Pi * n.  With Pi only known to lie in [PiLo, PiHi],
\* FALSE means the angle is no multiple of 2 * Pi.
WholeTurns(v, th) ==
    \E n \in 0 .. th :
        IF v = "par"
        THEN /\ 2 * PhaseDiv * PiLo * PiLo * n <= th * PiScale * PiScale
             /\ th * PiScale * PiScale <= 2 * PhaseDiv * PiHi * PiHi * n
        ELSE /\ 2 * PiLo * n <= th * PiScale
             /\ th * PiScale <= 2 * PiHi * n

(* ------------------------------ helpers ------------------------------ *)
Elems(s) == {s[i] : i \in 1 .. Len(s)}

InRect(p, r) == r.x0 <= p[1] /\ p[1] < r.x1 /\ r.y0 <= p[2] /\ p[2] < r.y1

\* Every pixel of heap object id has been Set at least once.
Full(id) == \A p \in Grid(width, height) : heap[id].writers[p] # <<>>

\* The phase sample of the i-th loop iteration.
Sample(i) == IF version = "par" THEN i - 1 ELSE SeqStep * (i - 1)

(* ------------------------------- claims ------------------------------ *)

\* C1: a frame of the parallel renderer is appended to img.Image only when
\* no drawPart goroutine is left and every pixel of the width x height grid
\* has been written; no goroutine ever works on a frame that is in
\* img.Image.
BarrierJoin ==
    version = "par" =>
        /\ pc = "appendImage" => tasks = {} /\ wg = 0 /\ Full(frame)
        /\ \A i \in 1 .. Len(Image) :
               /\ Full(Image[i])
               /\ \A t \in tasks : t.frame # Image[i]

BarrierJoinWitness ==
    /\ version = "par" /\ pc = "appendImage"
    /\ width >= 3 /\ height >= 2 /\ theta >= 1

\* C2: for positive width and height the four rectangles handed to
\* drawPart are pairwise disjoint and cover the grid, and in every frame
\* each pixel is Set at most once, by the goroutine whose rectangle holds
\* it, and exactly once by the time the frame is appended.
DisjointCover ==
    (version = "par" /\ width > 0 /\ height > 0) =>
        /\ \A p \in Grid(width, height) :
               Cardinality({i \in 1 .. NumParts :
                               InRect(p, PartRect(i, width, height))}) = 1
        /\ \A t \in tasks :
               \A u \in tasks \ {t} :
                   t.frame = u.frame =>
                       \A p \in Grid(width, height) :
                           ~(InRect(p, t) /\ InRect(p, u))
        /\ frame > 0 =>
               \A p \in Grid(width, height) :
                   LET w == heap[frame].writers[p]
                   IN /\ Len(w) <= 1
                      /\ pc \in {"appendImage", "appendDelay", "incr"}
                             => Len(w) = 1
                      /\ \A j \in 1 .. Len(w) :
                             InRect(p, PartRect(w[j], width, height))
        /\ Finished =>
               \A i \in 1 .. Len(Image) :
                   \A p \in Grid(width, height) :
                       Len(heap[Image[i]].writers[p]) = 1

DisjointCoverWitness ==
    /\ version = "par" /\ pc = "appendImage"
    /\ width = 3 /\ height = 2
    /\ \A p \in Grid(width, height) : Len(heap[frame].writers[p]) = 1

\* C3: every finished frame of the parallel renderer holds, whatever the
\* interleaving of the four goroutines, the pixels one sequential
\* row-major scan with the same pixel function produces.
PartitionInvariance ==
    version = "par" =>
        /\ pc = "appendDelay" =>
               heap[Image[Len(Image)]].pix = SequentialFrame(theta)
        /\ Finished =>
               \A i \in 1 .. Len(Image) :
                   heap[Image[i]].pix = SequentialFrame(Sample(i))

PartitionInvarianceWitness ==
    /\ version = "par" /\ pc = "done"
    /\ width >= 3 /\ height >= 2 /\ Len(Image) = NumFrames
    /\ heap[Image[2]].pix = SequentialFrame(1)

\* C4: when the loop ends there are exactly 60 frames and 60 delays, all
\* delays are 0, the i-th frame is the i-th one allocated and was rendered
\* for the i-th sample, and outside the two appends the two sequences have
\* the same length, the number of samples already handled.
FrameSequence ==
    /\ version \in {"par", "seq"}
    /\ (pc = "encode" \/ Finished) =>
           Len(Image) = NumFrames /\ Len(Delay) = NumFrames
    /\ Len(Image) = Len(Delay) + (IF pc = "appendDelay" THEN 1 ELSE 0)
    /\ pc \in {"loop", "new", "add", "go", "wait", "scan", "appendImage"} =>
           theta = Sample(Len(Image) + 1)
    /\ \A i \in 1 .. Len(Delay) : Delay[i] = 0
    /\ \A i \in 1 .. Len(Image) : Image[i] = i
    /\ pc = "appendDelay" =>
           \A p \in Grid(width, height) :
               heap[Image[Len(Image)]].pix[p].in[4][2] = Sample(Len(Image))
    /\ Finished =>
           \A i \in 1 .. Len(Image) :
               \A p \in Grid(width, height) :
                   heap[Image[i]].pix[p].in[4][2] = Sample(i)

FrameSequenceWitness ==
    /\ pc = "done" /\ width > 0 /\ height > 0
    /\ Len(Image) = NumFrames /\ Len(Delay) = NumFrames
    /\ heap[Image[NumFrames]].pix[<<0, 0>>].in[4][2] = Sample(NumFrames)

\* C5: FeedForward panics with "invalid number of inputs" exactly when the
\* input length differs from Param.NumInputs, and then no layer has been
\* activated.
DimensionMismatch ==
    (version = "net" /\ result # None) =>
        /\ (inLen # param.NumInputs) <=>
               (result.status = "panic"
                /\ result.err = "invalid number of inputs")
        /\ inLen # param.NumInputs => result.activated = 0

DimensionMismatchWitness ==
    /\ version = "net" /\ result # None
    /\ inLen # param.NumInputs /\ result.status = "panic"
    /\ param.NumHiddenLayers >= 2

\* C6: a run with non-positive width, height, depth or size never gets past
\* construction: no network, no frame and no goroutine exists.
InvalidConfigurationRejected ==
    (width <= 0 \/ height <= 0 \/ depth <= 0 \/ size <= 0) =>
        /\ cppn = <<>>
        /\ heap = <<>>
        /\ tasks = {}
        /\ pc \in {"start", "net", "panic"}

\* C7: for positive parameters NewCPPN returns NumHiddenLayers + 1 layers:
\* (NumInputs+1) x NumHiddenNeurons tanh, then (NumHiddenNeurons+1) x
\* NumHiddenNeurons tanh, last (NumHiddenNeurons+1) x NumOutputs sigmoid;
\* the columns of each layer are the rows of the next minus one.
ChainingInvariant ==
    (/\ version = "net" /\ cppn # <<>>
     /\ param.NumInputs > 0 /\ param.NumHiddenLayers > 0
     /\ param.NumHiddenNeurons > 0 /\ param.NumOutputs > 0) =>
        LET n == param.NumHiddenLayers
        IN /\ Len(cppn) = n + 1
           /\ cppn[1] = [r |-> param.NumInputs + 1,
                         c |-> param.NumHiddenNeurons, act |-> "tanh"]
           /\ \A i \in 2 .. n :
                  cppn[i] = [r |-> param.NumHiddenNeurons + 1,
                             c |-> param.NumHiddenNeurons, act |-> "tanh"]
           /\ cppn[n + 1] = [r |-> param.NumHiddenNeurons + 1,
                             c |-> param.NumOutputs, act |-> "sigmoid"]
           /\ \A i \in 1 .. Len(cppn) - 1 : cppn[i].c = cppn[i + 1].r - 1

ChainingInvariantWitness ==
    /\ version = "net" /\ cppn # <<>>
    /\ param.NumHiddenLayers >= 2 /\ param.NumInputs # param.NumHiddenNeurons
    /\ Len(cppn) = param.NumHiddenLayers + 1

\* C8: the phase angle reached one full set of samples after the first
\* sample (theta = 60 in part_001, theta = 360 in main.go, the value of the
\* loop variable when the loop ends) is a whole multiple of 2 * Pi, as it
\* is at theta = 0.
SeamlessLoop ==
    /\ pc = "loop" /\ theta = 0 => WholeTurns(version, theta)
    /\ pc = "encode" => WholeTurns(version, theta)

\* C9: all live drawPart goroutines work on the one frame that has been
\* created and not yet appended, for the current theta; there are at most
\* four of them; forking for a frame starts only when every earlier frame
\* has been appended.
OneFrameAtATime ==
    version = "par" =>
        /\ Cardinality(tasks) <= NumParts
        /\ Len(heap) <= Len(Image) + 1
        /\ \A t \in tasks :
               /\ t.frame = frame /\ t.theta = theta
               /\ frame = Len(heap)
               /\ frame \notin Elems(Image)
        /\ pc \in {"add", "go", "wait"} => Len(Image) = frame - 1
        /\ pc = "new" => tasks = {}

OneFrameAtATimeWitness ==
    /\ version = "par" /\ Cardinality(tasks) = NumParts /\ theta >= 1
    /\ \E t \in tasks : t.at = End
    /\ \E t \in tasks : t.at # End

\* C10: the wait-group counter is the number of goroutines forked and not
\* yet done (0 to 4, never negative, 0 past the barrier), and under fair
\* scheduling the run reaches the hand-over of all 60 frames to the
\* external encoder (whose first act, creating the file, may fail).
WgCounter ==
    /\ pc # "panic"
    /\ wg \in 0 .. NumParts
    /\ wg = Cardinality(tasks) + (IF pc = "go" THEN 1 ELSE 0)
    /\ (pc \in {"appendImage", "appendDelay", "incr", "loop", "new",
                "encode"} \/ Finished) => wg = 0

RenderTerminates ==
    /\ []WgCounter
    /\ <>(Finished /\ Len(Image) = NumFrames /\ tasks = {})

RenderTerminatesWitness ==
    /\ version = "par" /\ pc = "done" /\ wg = 0 /\ tasks = {}
    /\ width >= 2 /\ height >= 1 /\ Len(Image) = NumFrames

====
